---- MODULE Spec2Model ----
(***************************************************************************)
(* Model of obs_tallylight_rpi.py: the Tally object (source bindings,      *)
(* activity store, last-written GPIO record), the obs-websocket session    *)
(* and the main loop that connects, reconciles, sleeps and backs off.      *)
(*                                                                         *)
(* The program is one asyncio task (mainloop) plus the event callback the  *)
(* websocket client schedules on the same loop.  A step of the model runs  *)
(* the code between two suspension points (await), so the positions `pc`   *)
(* of mainloop are its awaits, plus the two places where it tests the      *)
(* session ("loop", line 157, and "line171"); nothing else runs there.     *)
(***************************************************************************)
EXTENDS Integers, Sequences, FiniteSets, TLC

\* ------------------------------------------------------------- bounds
\* Elapsed time since last_received saturates here (seconds).
MaxElapsed == 36

\* ---------------------------------------------------------- constants
\* asyncio.sleep(16), line 172
SleepIdentified == 16
\* asyncio.sleep(4), line 177
SleepBackoff == 4
\* idle_check_time = datetime.timedelta(seconds=30), line 154
IdleCheckTime == 30

\* How long one GetSourceActive round trip may take (seconds).
QueryDelays == {0, 14}

\* The event the callback is registered for (line 67).
EventName == "InputActiveStateChanged"

\* Source names the remote may talk about: the ones configurations bind, and
\* one that no configuration binds.
SourceNames == {"Camera 1", "Camera 2", "Camera 3"}

\* The -a GPIO=SOURCE arguments of the configurations explored, each already
\* split at '=' (line 38): the reference one, one with a shared pin, one with
\* a single source, and one naming a source twice.
Configs ==
    { << [gpio |-> 17, source |-> "Camera 1"], [gpio |-> 22, source |-> "Camera 2"] >>,
      << [gpio |-> 17, source |-> "Camera 1"], [gpio |-> 17, source |-> "Camera 2"] >>,
      << [gpio |-> 17, source |-> "Camera 1"] >>,
      << [gpio |-> 17, source |-> "Camera 1"], [gpio |-> 22, source |-> "Camera 1"] >> }

\* What the remote is for a connect attempt: unreachable ("down"), reachable
\* but not completing identification ("noident"), or reachable ("up").
RemoteStates == {"down", "noident", "up"}

\* What is assumed of the remote's sources.  "changing": their activity
\* changes at will, any answer and any event can come.  "settled": the
\* activity of every bound source has stopped changing, the session stays
\* identified, queries succeed and events report the bound sources as they
\* are.  "silent": as settled, and no event is delivered any more.
Phases == {"changing", "settled", "silent"}

Changing == [phase |-> "changing", active |-> [n \in {} |-> FALSE]]

\* The ways one GetSourceActive query can end (lines 91-108).
QueryOutcomes == {"true", "false", "TypeError", "NotIdentifiedError", "Exception"}

\* self.ws before any session was installed (line 33)
None == [set |-> FALSE, identified |-> FALSE, callbacks |-> {}]

VARIABLES
    args,                  \* the parsed arguments: [assign, daemon]
    assigns,               \* self.assigns: source -> gpio, in insertion order
    ws,                    \* self.ws: None, or a client [set, identified, callbacks]
    source_active_states,  \* self.source_active_states: source -> bool
    gpio_drives_prev,      \* self.gpio_drives_prev: gpio -> bool
    elapsed,               \* datetime.now() - self.last_received, saturated
    pc,                    \* where mainloop is
    idx,                   \* check_state: position of its loop in assigns
    caller,                \* check_state: who awaits it
    remote,                \* the obs-websocket server, see RemoteStates
    level,                 \* the GPIO pins: level last output on each
    writes,                \* GPIO.output calls made by the last step, in order
    exc,                   \* exception raised inside the last step, or "none"
    resp,                  \* how each query of the current/last pull ended
    pushed,                \* an event callback ran during the pull in progress
    pulled,                \* check_state has returned once on the session in self.ws
    obs,                   \* the remote's sources: [phase, active], see Phases
    op                     \* the last step taken

vars == << args, assigns, ws, source_active_states, gpio_drives_prev, elapsed,
           pc, idx, caller, remote, level, writes, exc, resp, pushed, pulled, obs,
           op >>

\* ------------------------------------------------------ dict helpers
\* A Python dict that is iterated is a sequence of [key, val] in insertion
\* order; assigning an existing key keeps its place.
DictHas(d, k) == \E i \in 1..Len(d) : d[i].key = k

DictGet(d, k) == d[CHOOSE i \in 1..Len(d) : d[i].key = k].val

DictSet(d, k, v) ==
    IF DictHas(d, k)
    THEN [i \in 1..Len(d) |-> IF d[i].key = k THEN [key |-> k, val |-> v] ELSE d[i]]
    ELSE Append(d, [key |-> k, val |-> v])

Keys(d) == {d[i].key : i \in 1..Len(d)}

Values(d) == {d[i].val : i \in 1..Len(d)}

\* f[k] = v on a dict whose order is never observed
Put(f, k, v) == [x \in (DOMAIN f) \cup {k} |-> IF x = k THEN v ELSE f[x]]

Min(a, b) == IF a < b THEN a ELSE b

\* ------------------------------------------------------ Tally.__init__
RECURSIVE BuildAssigns(_)
BuildAssigns(assign) ==
    IF assign = << >> THEN << >>
    ELSE LET n == Len(assign)
         IN  DictSet(BuildAssigns(SubSeq(assign, 1, n - 1)),
                     assign[n].source, assign[n].gpio)

\* The gpios in the order update_led first meets them (lines 122-123).
RECURSIVE PinOrder(_)
PinOrder(d) ==
    IF d = << >> THEN << >>
    ELSE LET n    == Len(d)
             head == PinOrder(SubSeq(d, 1, n - 1))
         IN  IF \E i \in 1..Len(head) : head[i] = d[n].val
             THEN head ELSE Append(head, d[n].val)

\* lines 43-48: every bound gpio is set up, driven False and recorded False
InitialDrives(d) == [g \in Values(d) |-> FALSE]

\* ------------------------------------------------------ GPIO
\* GPIO.output(gpio, active) for each call of ws, in order
RECURSIVE Output(_, _)
Output(lv, w) ==
    IF w = << >> THEN lv
    ELSE Output([lv EXCEPT ![w[1].gpio] = w[1].active], Tail(w))

\* ------------------------------------------------------ Tally.update_led
\* gpio_drives of lines 121-127
GpioDrives(d, states) ==
    [g \in Values(d) |->
        \E n \in DOMAIN states : states[n] /\ DictGet(d, n) = g]

\* lines 129-132: the gpios whose record differs from the desired level
ChangedPins(d, drives, prev) ==
    SelectSeq(PinOrder(d), LAMBDA g : prev[g] # drives[g])

\* Mutant: no comparison with the previous record, every gpio is output.
update_led_always(d, states, prev) ==
    LET drives == GpioDrives(d, states)
        order  == PinOrder(d)
    IN  [drives |-> drives,
         writes |-> [i \in 1..Len(order) |->
                        [gpio |-> order[i], active |-> drives[order[i]]]]]

\* Mutant: line 133 dropped, the record keeps its construction-time value.
update_led_stale(d, states, prev) ==
    LET drives == GpioDrives(d, states)
        ch     == ChangedPins(d, drives, prev)
    IN  [drives |-> prev,
         writes |-> [i \in 1..Len(ch) |->
                        [gpio |-> ch[i], active |-> drives[ch[i]]]]]

\* Mutant: a gpio is driven only if no stored source bound to it is inactive
\* (the levels of the sources of one gpio combined by `and`, lines 125-127).
update_led_own(d, states, prev) ==
    LET drives == [g \in Values(d) |->
                      /\ \E n \in DOMAIN states : states[n] /\ DictGet(d, n) = g
                      /\ \A n \in DOMAIN states : DictGet(d, n) = g => states[n]]
        ch     == ChangedPins(d, drives, prev)
    IN  [drives |-> drives,
         writes |-> [i \in 1..Len(ch) |->
                        [gpio |-> ch[i], active |-> drives[ch[i]]]]]

\* The new record and the GPIO.output calls of one pass.
update_led(d, states, prev) ==
    LET drives == GpioDrives(d, states)
        ch     == ChangedPins(d, drives, prev)
    IN  [drives |-> drives,
         writes |-> [i \in 1..Len(ch) |->
                        [gpio |-> ch[i], active |-> drives[ch[i]]]]]

\* Mutant: update_led is called inside the loop body's first turn and the
\* method returns (a `return` in place of falling out of the loop, line 117).
clear_all_first(d, states) == Put(states, d[1].key, FALSE)

\* Mutant: clear_all calls update_led without resetting the store (lines
\* 115-116 dropped).
clear_all_keep(d, states) == states

\* ------------------------------------------------------ Tally.clear_all
clear_all(d, states) == [n \in (DOMAIN states) \cup Keys(d) |->
                            IF n \in Keys(d) THEN FALSE ELSE states[n]]

\* ------------------------------------------------------ session
SessionOK(w) == w # None /\ w.identified
\* Mutant: mainloop also yields to the event loop between the return of
\* ws_connect and the test of line 171.
Suspended_yield == {"ws_connect", "check_state", "sleep16", "sleep4", "line171"}

\* The positions at which mainloop is suspended in an await, so that the
\* event loop can run the callback or the client's receive task

Suspended == {"ws_connect", "check_state", "sleep16", "sleep4"}
\* Mutant: line 157 tests only that a session object exists.
NeedConnect_once(w) == w = None

\* line 157: no session, or the session is not identified
NeedConnect(w) == w = None \/ ~w.identified

\* line 171
Ready(w) == w # None /\ w.identified
\* Mutant: ws_connect returns after installing the session, without calling
\* check_state (line 69 dropped).
ws_connect_nocheck(daemon, r, w) ==
    IF r = "down"
    THEN [ws |-> w, exc |-> "OSError", raised |-> ~daemon, entered |-> FALSE]
    ELSE [ws |-> [set |-> TRUE, identified |-> (r = "up"), callbacks |-> {EventName}],
          exc |-> "none", raised |-> FALSE, entered |-> FALSE]

\* Mutant: the OSError handler returns without looking at args.daemon
\* (lines 64-66).
ws_connect_swallow(daemon, r, w) ==
    IF r = "down"
    THEN [ws |-> w, exc |-> "OSError", raised |-> FALSE, entered |-> FALSE]
    ELSE [ws |-> [set |-> TRUE, identified |-> (r = "up"), callbacks |-> {EventName}],
          exc |-> "none", raised |-> FALSE, entered |-> TRUE]

\* ------------------------------------------------------ Tally.ws_connect
\* Lines 57-68, up to the call of check_state: the session now in self.ws,
\* the exception met, whether it leaves ws_connect, and whether check_state
\* is entered (line 69).
ws_connect(daemon, r, w) ==
    IF r = "down"
    THEN [ws |-> w, exc |-> "OSError", raised |-> ~daemon, entered |-> FALSE]
    ELSE [ws |-> [set |-> TRUE, identified |-> (r = "up"), callbacks |-> {EventName}],
          exc |-> "none", raised |-> FALSE, entered |-> TRUE]
\* Mutant: no TypeError handler (lines 100-102 dropped): TypeError reaches
\* the last handler.
check_state_iter_nohandler(daemon, states, name, out) ==
    LET active == (out = "true")
        raised == out \in {"NotIdentifiedError", "TypeError", "Exception"} /\ ~daemon
    IN  [raised |-> raised,
         states |-> IF raised THEN states ELSE Put(states, name, active)]
\* Mutant: the handlers never re-raise (the `if not self.args.daemon` tests
\* of lines 98 and 104 lost).
check_state_iter_swallow(daemon, states, name, out) ==
    [raised |-> FALSE, states |-> Put(states, name, out = "true")]

\* Mutant: the TypeError handler skips the rest of the turn (`continue` in
\* place of `pass`, line 102), so line 109 is not reached for that source.
check_state_iter_skip(daemon, states, name, out) ==
    LET active == (out = "true")
        raised == out \in {"NotIdentifiedError", "Exception"} /\ ~daemon
    IN  [raised |-> raised,
         states |-> IF raised \/ out = "TypeError" THEN states
                    ELSE Put(states, name, active)]
\* Mutant: the last handler re-raises without looking at args.daemon
\* (lines 103-105).
check_state_iter_raise(daemon, states, name, out) ==
    LET active == (out = "true")
        raised == \/ out = "NotIdentifiedError" /\ ~daemon
                  \/ out = "Exception"
    IN  [raised |-> raised,
         states |-> IF raised THEN states ELSE Put(states, name, active)]

\* ------------------------------------------------------ Tally.check_state
\* One turn of the loop of lines 89-109 for `name`, its query ending `out`:
\* whether the exception leaves check_state, and the store afterwards.
check_state_iter(daemon, states, name, out) ==
    LET active == (out = "true")
        raised == out \in {"NotIdentifiedError", "Exception"} /\ ~daemon
    IN  [raised |-> raised,
         states |-> IF raised THEN states ELSE Put(states, name, active)]

\* What `await self.ws.call(req)` can give (line 93): an exception, or a
\* response [ok, data], data being responseData: None, or a dict whose
\* videoActive is the string's value.
Raise(e) == [raised |-> e, ok |-> FALSE, data |-> "None"]

Response(ok, data) == [raised |-> "none", ok |-> ok, data |-> data]

\* On an identified session the call returns a response or fails otherwise
\* (a timeout, ...); on a session that is not identified it raises
\* NotIdentifiedError, or times out if the session was lost meanwhile.
CallResults(w) ==
    IF SessionOK(w)
    THEN {Response(ok, data) : ok \in BOOLEAN, data \in {"None", "true", "false"}}
             \cup {Raise("Exception")}
    ELSE {Raise("NotIdentifiedError"), Raise("Exception")}

\* Lines 93-96: how the turn of the loop ends for a call result.  A response
\* that is not ok raises ValueError, which only the last handler catches;
\* subscripting a responseData of None raises TypeError.
Classify(res) ==
    IF res.raised # "none" THEN res.raised
    ELSE IF ~res.ok THEN "Exception"
    ELSE IF res.data = "None" THEN "TypeError"
    ELSE res.data

\* How the query of one source can end
Outcomes(w) == {Classify(res) : res \in CallResults(w)}

\* How the query of source `name` can end, given what is assumed of the
\* remote: once its sources have settled it answers ok with their activity
Answers(o, w, name) ==
    IF o.phase = "changing" THEN Outcomes(w)
    ELSE {Classify(Response(TRUE, IF o.active[name] THEN "true" ELSE "false"))}

\* Whether the event (name, active) can be delivered (data of line 74)
Deliverable(o, name, active) ==
    \/ o.phase = "changing"
    \/ o.phase = "settled" /\ (name \in DOMAIN o.active => active = o.active[name])

\* Mutant: the test of line 80 guards only the call of update_led, the store
\* is set for every source name.
on_active_state_changed_any(d, states, name, active) ==
    [states |-> Put(states, name, active), update |-> DictHas(d, name)]

\* Mutant: update_led is called outside the `if` of line 80.
on_active_state_changed_dedent(d, states, name, active) ==
    IF DictHas(d, name)
    THEN [states |-> Put(states, name, active), update |-> TRUE]
    ELSE [states |-> states, update |-> TRUE]

\* Mutant: line 82 dropped, the store is set but not projected.
on_active_state_changed_noupdate(d, states, name, active) ==
    IF DictHas(d, name)
    THEN [states |-> Put(states, name, active), update |-> FALSE]
    ELSE [states |-> states, update |-> FALSE]

\* ------------------------------------- Tally._on_active_state_changed
\* lines 76-82: the store afterwards, and whether update_led is called
on_active_state_changed(d, states, name, active) ==
    IF DictHas(d, name)
    THEN [states |-> Put(states, name, active), update |-> TRUE]
    ELSE [states |-> states, update |-> FALSE]
\* Mutant: the idle check of lines 173-174 never fires.
Stale_never(e) == FALSE

\* Mutant: line 173 compares with >= instead of >.
Stale_ge(e) == e >= IdleCheckTime

\* line 173
Stale(e) == e > IdleCheckTime

\* ------------------------------------------------------ state machine
Step(kind) == [kind |-> kind, source |-> "", active |-> FALSE]

Project(states) ==
    LET r == update_led(assigns, states, gpio_drives_prev)
    IN  /\ gpio_drives_prev' = r.drives
        /\ writes' = r.writes
        /\ level' = Output(level, r.writes)

NoProject ==
    /\ writes' = << >>
    /\ UNCHANGED << gpio_drives_prev, level >>

\* line 86 and the reset of the bookkeeping of a pull
EnterCheckState(who) ==
    /\ elapsed' = 0
    /\ idx' = 1
    /\ caller' = who
    /\ resp' = [n \in Keys(assigns) |-> "none"]
    /\ pushed' = FALSE
    /\ pc' = "check_state"

\* check_state has returned: its locals and the bookkeeping of the pull are
\* gone when mainloop takes its next step
LeaveCheckState ==
    /\ idx' = 1
    /\ caller' = "none"
    /\ resp' = [n \in Keys(assigns) |-> "none"]
    /\ pushed' = FALSE

Init ==
    /\ args \in [assign : Configs, daemon : BOOLEAN]
    /\ assigns = BuildAssigns(args.assign)
    /\ ws = None
    /\ source_active_states = [n \in {} |-> FALSE]
    /\ gpio_drives_prev = InitialDrives(assigns)
    /\ level = InitialDrives(assigns)
    /\ writes = [i \in 1..Len(assigns) |-> [gpio |-> assigns[i].val, active |-> FALSE]]
    /\ elapsed = 0
    /\ pc = "loop"
    /\ idx = 1
    /\ caller = "none"
    /\ remote \in RemoteStates
    /\ exc = "none"
    /\ resp = [n \in Keys(assigns) |-> "none"]
    /\ pushed = FALSE
    /\ pulled = FALSE
    /\ obs = Changing
    /\ op = Step("init")

\* mainloop, lines 156-157 and 171: start of an iteration
Iterate ==
    /\ pc = "loop"
    /\ pc' = IF NeedConnect(ws) THEN "ws_connect" ELSE "sleep16"
    /\ op' = Step("iterate")
    /\ exc' = "none"
    /\ NoProject
    /\ LeaveCheckState
    /\ UNCHANGED << pulled, obs, args, assigns, ws, source_active_states, elapsed, remote >>

\* ws_connect, lines 57-69: the connect attempt ends
Connect ==
    /\ pc = "ws_connect"
    /\ LET r == ws_connect(args.daemon, remote, ws)
       IN  /\ ws' = r.ws
           /\ exc' = r.exc
           /\ pulled' = (pulled /\ ~r.entered)
           /\ IF r.raised
              THEN pc' = "fatal" /\ UNCHANGED << elapsed, idx, caller, resp, pushed >>
              ELSE IF r.entered
              THEN EnterCheckState("ws_connect")
              ELSE pc' = "line171" /\ UNCHANGED << elapsed, idx, caller, resp, pushed >>
    /\ op' = Step("connect")
    /\ NoProject
    /\ UNCHANGED << args, assigns, source_active_states, remote, obs >>

\* check_state, lines 89-111: the query for assigns[idx] ends; after the last
\* one update_led runs and check_state returns to its caller
Query ==
    /\ pc = "check_state"
    /\ \E out \in Answers(obs, ws, assigns[idx].key), d \in QueryDelays :
         LET name == assigns[idx].key
             r    == check_state_iter(args.daemon, source_active_states, name, out)
         IN  /\ op' = [kind |-> "query", source |-> name, active |-> (out = "true")]
             /\ exc' = IF out \in {"true", "false"} THEN "none" ELSE out
             /\ resp' = [resp EXCEPT ![name] = out]
             /\ elapsed' = Min(elapsed + d, MaxElapsed)
             /\ source_active_states' = r.states
             /\ IF r.raised
                THEN pc' = "fatal" /\ idx' = idx /\ NoProject
                ELSE IF idx < Len(assigns)
                THEN pc' = pc /\ idx' = idx + 1 /\ NoProject
                ELSE /\ idx' = idx
                     /\ Project(r.states)
                     /\ pc' = IF caller = "ws_connect" THEN "line171" ELSE "loop"
    /\ pulled' = (pulled \/ pc' \in {"line171", "loop"})
    /\ UNCHANGED << args, assigns, ws, caller, remote, pushed, obs >>

\* mainloop, lines 171-177 after ws_connect returned
Branch ==
    /\ pc = "line171"
    /\ IF Ready(ws)
       THEN /\ pc' = "sleep16"
            /\ NoProject
            /\ UNCHANGED source_active_states
       ELSE /\ source_active_states' = clear_all(assigns, source_active_states)
            /\ Project(source_active_states')
            /\ pc' = "sleep4"
    /\ op' = Step("branch")
    /\ exc' = "none"
    /\ LeaveCheckState
    /\ UNCHANGED << pulled, obs, args, assigns, ws, elapsed, remote >>

\* mainloop, lines 172-174: the 16 s sleep ends
Wake16 ==
    /\ pc = "sleep16"
    /\ LET e == Min(elapsed + SleepIdentified, MaxElapsed)
       IN  IF Stale(e)
           THEN EnterCheckState("mainloop")
           ELSE /\ elapsed' = e
                /\ pc' = "loop"
                /\ UNCHANGED << idx, caller, resp, pushed >>
    /\ op' = Step("wake16")
    /\ exc' = "none"
    /\ NoProject
    /\ UNCHANGED << pulled, obs, args, assigns, ws, source_active_states, remote >>

\* mainloop, line 177: the 4 s backoff ends
Wake4 ==
    /\ pc = "sleep4"
    /\ elapsed' = Min(elapsed + SleepBackoff, MaxElapsed)
    /\ pc' = "loop"
    /\ op' = Step("wake4")
    /\ exc' = "none"
    /\ NoProject
    /\ UNCHANGED << pulled, obs, args, assigns, ws, source_active_states, idx, caller,
                    remote, resp, pushed >>

\* _on_active_state_changed, lines 74-82: the client delivers an event while
\* mainloop is suspended
Push(name, active) ==
    /\ pc \in Suspended
    /\ SessionOK(ws)
    /\ EventName \in ws.callbacks
    /\ Deliverable(obs, name, active)
    /\ LET r == on_active_state_changed(assigns, source_active_states, name, active)
       IN  /\ source_active_states' = r.states
           /\ IF r.update THEN Project(r.states) ELSE NoProject
    /\ elapsed' = 0
    /\ pushed' = (pc = "check_state")
    /\ op' = [kind |-> "push", source |-> name, active |-> active]
    /\ exc' = "none"
    /\ UNCHANGED << pulled, obs, args, assigns, ws, pc, idx, caller, remote, resp >>

\* The remote becomes (un)reachable.
SetRemote(r) ==
    /\ pc \in Suspended
    /\ obs.phase = "changing"
    /\ r # remote
    /\ remote' = r
    /\ op' = Step("remote")
    /\ exc' = "none"
    /\ NoProject
    /\ UNCHANGED << pulled, obs, args, assigns, ws, source_active_states, elapsed, pc, idx,
                    caller, resp, pushed >>

\* A remote that is not up loses the session: the client clears `identified`.
Drop ==
    /\ pc \in Suspended
    /\ SessionOK(ws)
    /\ obs.phase = "changing"
    /\ remote # "up"
    /\ ws' = [ws EXCEPT !.identified = FALSE]
    /\ op' = Step("drop")
    /\ exc' = "none"
    /\ NoProject
    /\ UNCHANGED << pulled, obs, args, assigns, source_active_states, elapsed, pc, idx,
                    caller, remote, resp, pushed >>

\* From now on the session stays identified, queries succeed and the bound
\* sources keep the activity f.
Settle(f) ==
    /\ pc \in Suspended
    /\ SessionOK(ws)
    /\ remote = "up"
    /\ obs.phase = "changing"
    /\ obs' = [phase |-> "settled", active |-> f]
    /\ op' = Step("settle")
    /\ exc' = "none"
    /\ NoProject
    /\ UNCHANGED << pulled, args, assigns, ws, source_active_states, elapsed, pc,
                    idx, caller, remote, resp, pushed >>

\* From now on no event is delivered.
Silence ==
    /\ pc \in Suspended
    /\ obs.phase = "settled"
    /\ obs' = [obs EXCEPT !.phase = "silent"]
    /\ op' = Step("silence")
    /\ exc' = "none"
    /\ NoProject
    /\ UNCHANGED << pulled, args, assigns, ws, source_active_states, elapsed, pc,
                    idx, caller, remote, resp, pushed >>

Program == Iterate \/ Connect \/ Query \/ Branch \/ Wake16 \/ Wake4

Next ==
    \/ Iterate
    \/ Connect
    \/ Query
    \/ Branch
    \/ Wake16
    \/ Wake4
    \/ \E name \in SourceNames, active \in BOOLEAN : Push(name, active)
    \/ \E r \in RemoteStates : SetRemote(r)
    \/ Drop

Spec == Init /\ [][Next]_vars

\* asyncio resumes mainloop whenever its await is over: sleeps end, and
\* connects and calls end with a result, an error or a timeout.
\* The liveness properties are about daemon mode.
LiveInit == Init /\ args.daemon

LiveSpec == LiveInit /\ [][Next]_vars /\ WF_vars(Program)

\* The same program, in daemon mode, with a remote whose sources may settle
\* and whose events may cease.
HealNext ==
    \/ Next
    \/ \E f \in [Keys(assigns) -> BOOLEAN] : Settle(f)
    \/ Silence

HealSpec == LiveInit /\ [][HealNext]_vars /\ WF_vars(Program)

TypeOK ==
    /\ obs.phase \in Phases
    /\ pc \in Suspended \cup {"loop", "line171", "fatal"}
    /\ DOMAIN source_active_states \subseteq Keys(assigns)
    /\ DOMAIN gpio_drives_prev = Values(assigns)
    /\ elapsed \in 0..MaxElapsed

\* ====================================================== claims

\* A step of check_state that ended the query for op'.source
QueryStep == pc = "check_state" /\ op'.kind = "query"

\* The activity the store holds for x, an absent entry counting as inactive
Active(states, x) == x \in DOMAIN states /\ states[x]

PullEnd == QueryStep /\ pc' \in {"line171", "loop"}

\* How many GPIO.output calls of w are for gpio g
Count(w, g) == Cardinality({i \in 1..Len(w) : w[i].gpio = g})

\* The sources bound to gpio g
SourcesOf(g) == {n \in Keys(assigns) : DictGet(assigns, n) = g}

AllFalse(f) == \A x \in DOMAIN f : f[x] = FALSE

\* The case of C2: the pull that ws_connect runs on the session it just
\* installed ends, every query of it was answered, no event was handled
\* meanwhile, and the record of last-written levels is all False.
FirstPullEnds ==
    /\ PullEnd
    /\ caller = "ws_connect"
    /\ ~pushed
    /\ AllFalse(gpio_drives_prev)
    /\ \A n \in Keys(assigns) : resp'[n] \in {"true", "false"}

\* C2 (as stated): the first reconciliation pull on a freshly identified
\* session, starting from the all-False OutputState, writes every bound pin
\* exactly once, with the value queried for it (pin 17 True once, pin 22
\* False once in the reference scenario).
C2_EveryPinWrittenOnce ==
    [][FirstPullEnds =>
        \A g \in Values(assigns) :
            /\ Count(writes', g) = 1
            /\ \A i \in 1..Len(writes') :
                   writes'[i].gpio = g =>
                       writes'[i].active = (\E n \in SourcesOf(g) : resp'[n] = "true")]_vars

\* C2 (amended): that pull writes True, exactly once, to every bound pin that
\* has a source queried true, and does not write the pins whose sources were
\* all queried false (pin 17 True once, pin 22 not written).
C2_OnlyTruePinsWritten ==
    [][FirstPullEnds =>
        /\ \A g \in Values(assigns) :
               Count(writes', g) =
                   IF \E n \in SourcesOf(g) : resp'[n] = "true" THEN 1 ELSE 0
        /\ \A i \in 1..Len(writes') : writes'[i].active = TRUE]_vars

\* C2 witness: the reference scenario, bindings {17: Camera 1, 22: Camera 2}
\* and responses {Camera 1: true, Camera 2: false}, at the end of the pull of
\* ws_connect: one write, pin 17 True; pin 22 still at its initial False.
C2_Witness ==
    /\ Len(assigns) = 2 /\ Cardinality(Values(assigns)) = 2
    /\ op.kind = "query" /\ pc = "line171" /\ ~pushed
    /\ resp = [n \in Keys(assigns) |-> IF n = "Camera 1" THEN "true" ELSE "false"]
    /\ writes = << [gpio |-> 17, active |-> TRUE] >>
    /\ level[22] = FALSE /\ gpio_drives_prev[22] = FALSE

\* C3: debounce.  In every step, each GPIO.output call of a projection pass
\* goes to a pin whose level last written differs from the value written,
\* writes the pin's desired level, and is the only call for that pin; so a
\* pass whose desired levels are the levels last written (a second pass with
\* no store change in between) makes no call at all.
C3_Debounce ==
    [][/\ \A i \in 1..Len(writes') :
              /\ level[writes'[i].gpio] # writes'[i].active
              /\ writes'[i].active
                     = GpioDrives(assigns, source_active_states')[writes'[i].gpio]
              /\ Count(writes', writes'[i].gpio) = 1
       /\ GpioDrives(assigns, source_active_states') = level => writes' = << >>]_vars

\* C3 witness: an event set a bound source True while its pin was already
\* written True; the projection pass of that event made no GPIO.output call.
C3_Witness ==
    /\ op.kind = "push" /\ op.active /\ DictHas(assigns, op.source)
    /\ source_active_states[op.source] = TRUE
    /\ level[DictGet(assigns, op.source)] = TRUE
    /\ writes = << >>
    /\ pc = "sleep16"

\* The step in which a connect attempt ends in OSError
ConnectFails == pc = "ws_connect" /\ op'.kind = "connect" /\ exc' = "OSError"

\* C4: a connect attempt that fails with OSError installs no session and
\* registers no callback (self.ws is what it was, and is not an identified
\* session); in daemon mode ws_connect returns and mainloop goes on at line
\* 171, in interactive mode the error leaves ws_connect and mainloop, which
\* takes no further step.
C4_ConnectFailure ==
    [][/\ ConnectFails =>
              /\ ws' = ws
              /\ ~SessionOK(ws')
              /\ pc' = IF args.daemon THEN "line171" ELSE "fatal"
       /\ pc # "fatal"]_vars

\* C4 witness: in daemon mode a reconnect attempt has just failed with
\* OSError; self.ws still holds the earlier, lost session and mainloop is at
\* line 171.
C4_Witness ==
    /\ args.daemon
    /\ op.kind = "connect" /\ exc = "OSError"
    /\ pc = "line171"
    /\ ws.set /\ ~ws.identified

\* C5: in daemon mode mainloop never terminates, whatever fails (OSError on
\* connect, NotIdentifiedError, TypeError or any other exception in a query),
\* and it starts a new iteration again and again.
C5_DaemonNeverStops ==
    /\ [](args.daemon => pc # "fatal")
    /\ []<>(args.daemon => pc = "loop")

\* C5 witness: in daemon mode a query has just failed with an exception of
\* the last handler; the source is recorded inactive and check_state goes on
\* with the next source.
C5_Witness ==
    /\ args.daemon
    /\ op.kind = "query" /\ exc = "Exception"
    /\ pc = "check_state"
    /\ source_active_states[op.source] = FALSE

\* Every bound source is recorded inactive and every bound pin is recorded,
\* and physically is, False.
AllClear ==
    /\ \A n \in Keys(assigns) :
           n \in DOMAIN source_active_states /\ source_active_states[n] = FALSE
    /\ AllFalse(gpio_drives_prev)
    /\ AllFalse(level)

\* C6: in daemon mode, an iteration that finds no identified session at line
\* 171 after its connect attempt goes to the 4 s backoff; whenever the
\* backoff begins (and while it lasts) every bound source's entry is False
\* and every bound pin's last-written level is False; when the backoff ends
\* a new iteration starts, still without an identified session, and an
\* iteration that starts without one makes a connect attempt.
C6_BackoffAllOff ==
    [][args.daemon =>
        /\ (pc = "line171" /\ ~SessionOK(ws)) => pc' = "sleep4"
        /\ pc' = "sleep4" => AllClear'
        /\ (pc = "sleep4" /\ pc' # "sleep4") => (pc' = "loop" /\ ~SessionOK(ws'))
        /\ (pc = "loop" /\ ~SessionOK(ws)) => pc' = "ws_connect"]_vars

\* C6 witness: in daemon mode line 171 found no session after a failed
\* reconnect, and clear_all has just switched off a pin that was lit; the
\* backoff begins.
C6_Witness ==
    /\ args.daemon
    /\ pc = "sleep4" /\ op.kind = "branch"
    /\ exc = "none" /\ ws.set /\ ~ws.identified
    /\ \E i \in 1..Len(writes) : writes[i].active = FALSE
    /\ AllClear

\* The state in which check_state has just returned from a complete pull
PullDone == op.kind = "query" /\ pc \in {"line171", "loop"}

\* C7: in daemon mode, from every state in which there is no identified
\* session while the remote is reachable, either the remote stops being
\* reachable or the session becomes identified and a reconciliation pull is
\* completed on it; and an iteration makes a connect attempt exactly when no
\* identified session exists at its start.
C7_Reconnects ==
    /\ (remote = "up" /\ ~SessionOK(ws))
           ~> (remote # "up" \/ (SessionOK(ws) /\ PullDone))
    /\ [][pc = "loop" => (pc' = "ws_connect" <=> ~SessionOK(ws))]_vars

\* C7 witness: in daemon mode, with the remote up, check_state has just
\* returned to ws_connect from a pull on an identified session in which every
\* query was answered, one of them after a delay.
C7_Witness ==
    /\ args.daemon
    /\ SessionOK(ws) /\ PullDone /\ pc = "line171"
    /\ remote = "up"
    /\ \A n \in Keys(assigns) : resp[n] \in {"true", "false"}
    /\ elapsed > 0

\* The step in which the 16 s sleep of line 172 ends
WakeStep == pc = "sleep16" /\ op'.kind = "wake16"

\* C8: when the 16 s sleep ends, check_state is called if and only if the
\* time since last_received, the sleep included, is strictly more than 30 s;
\* so a sleep begun right at last_received (elapsed 0, woken at 16 s) never
\* forces a pull, and the sleep after it (elapsed 16, woken at 32 s) always
\* does.
C8_StalePull ==
    [][WakeStep =>
        /\ (pc' = "check_state" /\ caller' = "mainloop")
               <=> (elapsed + SleepIdentified > IdleCheckTime)
        /\ pc' \in {"check_state", "loop"}
        /\ elapsed = 0 => pc' = "loop"
        /\ elapsed = SleepIdentified => pc' = "check_state"]_vars

\* C8 witness: the sleep ended exactly 30 s after last_received (a 14 s query
\* and the 16 s sleep) and no pull was forced.
C8_Witness ==
    /\ op.kind = "wake16" /\ pc = "loop"
    /\ elapsed = IdleCheckTime
    /\ SessionOK(ws)

\* An event callback ran for op'.source
PushStep == pc \in Suspended /\ op'.kind = "push"

\* C9: an event for a source name that is not bound leaves the store, the
\* record of last-written levels and the pins as they were and makes no
\* GPIO.output call.
C9_UnboundPushIgnored ==
    [][(PushStep /\ ~DictHas(assigns, op'.source)) =>
        /\ source_active_states' = source_active_states
        /\ gpio_drives_prev' = gpio_drives_prev
        /\ level' = level
        /\ writes' = << >>]_vars

\* C9 witness: an event for the unbound "Camera 3" was handled in the middle
\* of a pull whose first query changed the store, so a projection pass would
\* have had a pin to write.
C9_Witness ==
    /\ op.kind = "push" /\ ~DictHas(assigns, op.source)
    /\ pc = "check_state"
    /\ GpioDrives(assigns, source_active_states) # gpio_drives_prev
    /\ writes = << >>

\* What C10 says of every event for a bound source in both forms: the entry
\* of the source is set to the event's value and no other entry changes,
\* and update_led runs in the same step (the record and the pins are at the
\* desired levels afterwards).
PushSetsAndProjects ==
    /\ source_active_states'
           = Put(source_active_states, op'.source, op'.active)
    /\ gpio_drives_prev' = GpioDrives(assigns, source_active_states')
    /\ level' = gpio_drives_prev'

\* Only the pin g is written, if any, and it is written, once and with v,
\* exactly when v differs from its last-written level.
OnlyPinWritten(g, v) ==
    /\ \A i \in 1..Len(writes') : writes'[i].gpio = g /\ writes'[i].active = v
    /\ Count(writes', g) = IF v # level[g] THEN 1 ELSE 0

\* C10 (as stated): an event {s, v} for a bound source s sets the entry of s
\* to v, leaves the others, projects in the same step; only the pin of s can
\* be written, and it is written with v exactly when v differs from its
\* last-written level.
C10_PushWritesOwnPin ==
    [][(PushStep /\ DictHas(assigns, op'.source)) =>
        /\ PushSetsAndProjects
        /\ OnlyPinWritten(DictGet(assigns, op'.source), op'.active)]_vars

\* C10 (amended): an event {s, v} for a bound source s sets the entry of s
\* to v, leaves the others, projects in the same step; the pass writes, once
\* and with its desired level (the OR of the entries of the sources bound to
\* it), exactly each pin whose desired level differs from its last-written
\* level.  When no reconciliation pull is in progress and no other source
\* is bound to the pin of s, only the pin of s can be written, and it is
\* written with v exactly when v differs from its last-written level.
C10_PushProjectsStore ==
    [][(PushStep /\ DictHas(assigns, op'.source)) =>
        LET g       == DictGet(assigns, op'.source)
            desired == GpioDrives(assigns, source_active_states')
        IN  /\ PushSetsAndProjects
            /\ \A p \in Values(assigns) :
                   Count(writes', p) = IF desired[p] # level[p] THEN 1 ELSE 0
            /\ \A i \in 1..Len(writes') :
                   writes'[i].active = desired[writes'[i].gpio]
            /\ (pc # "check_state" /\ SourcesOf(g) = {op'.source})
                   => OnlyPinWritten(g, op'.active)]_vars

\* C10 witness: the first scenario of the reference configuration: while
\* mainloop sleeps, the event {Camera 1, true} has just been handled; pin 17
\* was written True, pin 22 was not written and is still False.
C10_Witness ==
    /\ Len(assigns) = 2 /\ Cardinality(Values(assigns)) = 2
    /\ pc = "sleep16"
    /\ op = [kind |-> "push", source |-> "Camera 1", active |-> TRUE]
    /\ writes = << [gpio |-> 17, active |-> TRUE] >>
    /\ level[17] = TRUE /\ level[22] = FALSE

\* C11: clear_all and its projection pass leave every bound source's entry
\* False and every bound pin recorded and driven False.  It is so in the
\* state that follows the call of line 176, and it would be so if the pair
\* ran from any reachable state: in the middle of a pull, with a shared pin
\* lit, with entries absent.
C11_ClearAllTurnsOff ==
    LET states == clear_all(assigns, source_active_states)
        r      == update_led(assigns, states, gpio_drives_prev)
    IN  /\ \A n \in Keys(assigns) : n \in DOMAIN states /\ states[n] = FALSE
        /\ AllFalse(r.drives)
        /\ AllFalse(Output(level, r.writes))
        /\ (op.kind = "branch" /\ pc = "sleep4") => AllClear

\* C11 witness: clear_all has just run while a pin shared by two sources was
\* lit by one of them, and switched it off.
C11_Witness ==
    /\ op.kind = "branch" /\ pc = "sleep4"
    /\ Len(assigns) = 2 /\ Cardinality(Values(assigns)) = 1
    /\ writes = << [gpio |-> 17, active |-> FALSE] >>
    /\ AllClear

\* C12: a query of check_state that ends in TypeError (source not found,
\* malformed response) is never fatal, in interactive mode as in daemon
\* mode: check_state goes on with the next source, or, after the last one,
\* projects and returns.
C12_NotFoundNotFatal ==
    [][(QueryStep /\ exc' = "TypeError") =>
        /\ pc' # "fatal"
        /\ idx < Len(assigns) => (pc' = "check_state" /\ idx' = idx + 1)
        /\ idx = Len(assigns) => pc' \in {"line171", "loop"}]_vars

\* C12 witness: in interactive mode the query of the first of two sources
\* ended in TypeError and check_state is waiting for the query of the second.
C12_Witness ==
    /\ ~args.daemon
    /\ op.kind = "query" /\ exc = "TypeError"
    /\ pc = "check_state" /\ idx = 2
    /\ resp[assigns[1].key] = "TypeError"

\* C13: in interactive mode a query of check_state that ends in
\* NotIdentifiedError or in any other exception than TypeError leaves
\* check_state and mainloop: the store entry of the source is not written,
\* update_led is not called, no further source is queried and mainloop takes
\* no step any more.
C13_InteractiveFatal ==
    [][/\ (QueryStep /\ ~args.daemon /\ exc' \in {"NotIdentifiedError", "Exception"}) =>
              /\ pc' = "fatal"
              /\ source_active_states' = source_active_states
              /\ writes' = << >> /\ gpio_drives_prev' = gpio_drives_prev
       /\ pc = "fatal" => UNCHANGED << pc, resp, source_active_states >>]_vars

\* C13 witness: in interactive mode the query of the first of two sources
\* raised, mainloop is terminated and the second source was never queried.
C13_Witness ==
    /\ ~args.daemon
    /\ pc = "fatal" /\ op.kind = "query" /\ exc = "NotIdentifiedError"
    /\ Len(assigns) = 2 /\ idx = 1
    /\ resp[assigns[2].key] = "none"

\* C14: in daemon mode every step of a pull queries the next bound source in
\* the order of the bindings, whatever the earlier queries ended in, each
\* source once; update_led does not run before the last query has ended and
\* runs once then, and check_state returns.
C14_OneQueryPerSource ==
    [][(QueryStep /\ args.daemon) =>
        /\ op'.source = assigns[idx].key
        /\ \A i \in 1..Len(assigns) : (resp[assigns[i].key] # "none") <=> (i < idx)
        /\ resp'[assigns[idx].key] # "none"
        /\ IF idx < Len(assigns)
           THEN /\ pc' = "check_state" /\ idx' = idx + 1
                /\ writes' = << >>
                /\ gpio_drives_prev' = gpio_drives_prev
           ELSE /\ pc' \in {"line171", "loop"}
                /\ gpio_drives_prev' = GpioDrives(assigns, source_active_states')
                /\ level' = gpio_drives_prev'
                /\ \A n \in Keys(assigns) : resp'[n] # "none"]_vars

\* C14 witness: in daemon mode a pull over two sources has just returned
\* although the first query raised and the second met TypeError.
C14_Witness ==
    /\ args.daemon
    /\ PullDone /\ Len(assigns) = 2
    /\ resp[assigns[1].key] = "Exception"
    /\ resp[assigns[2].key] = "TypeError"

\* C15: a connect attempt that ends with an identified session enters
\* check_state at once, which stamps last_received; control is back in
\* mainloop (line 171) only when that pull has returned, so whenever mainloop
\* sleeps its 16 s, and whenever it tests staleness after them, a pull has
\* been completed on the session in self.ws.
C15_PullBeforeFirstSleep ==
    [][/\ (pc = "ws_connect" /\ op'.kind = "connect" /\ SessionOK(ws')) =>
              /\ pc' = "check_state" /\ caller' = "ws_connect"
              /\ elapsed' = 0
              /\ ~pulled'
       /\ (pc = "check_state" /\ pc' = "line171") => (pulled' /\ caller = "ws_connect")
       /\ pc' = "sleep16" => pulled'
       /\ (pc # "sleep16" /\ pc' = "sleep16") => SessionOK(ws')
       /\ WakeStep => pulled]_vars

\* C15 witness: ws_connect has returned from the pull on the session it
\* installed and mainloop begins its first 16 s sleep on that session.
C15_Witness ==
    /\ pc = "sleep16" /\ op.kind = "branch"
    /\ pulled /\ SessionOK(ws)
    /\ \A n \in Keys(assigns) : n \in DOMAIN source_active_states

\* C16 (as stated): an event callback never runs while a pull or a connect
\* attempt is in progress; in particular no projection pass of a callback
\* runs on a store of which the pull in progress has written some entries
\* and not yet the others.
C16_NoPushDuringPull ==
    [][(PushStep /\ DictHas(assigns, op'.source)) =>
        ~(pc = "check_state" /\ idx > 1)]_vars

\* C16 (amended): an event callback runs only while mainloop is suspended on
\* an identified session: in its 16 s sleep, or in check_state waiting for
\* the response to a query, never during a connect attempt, the backoff or
\* between two awaits.  It runs to its end, its projection pass included, in
\* one step and leaves the pull where it was; a pull in progress may thus
\* have written only some entries when the callback projects the store.
C16_PushOnlyAtAwait ==
    [][PushStep =>
        /\ pc \in {"check_state", "sleep16"}
        /\ SessionOK(ws)
        /\ UNCHANGED << pc, idx, caller, resp, ws >>
        /\ DictHas(assigns, op'.source) =>
               /\ gpio_drives_prev' = GpioDrives(assigns, source_active_states')
               /\ level' = gpio_drives_prev']_vars

\* C16 witness: while check_state waited for the query of the second source,
\* an event for the second source was handled and its projection pass wrote
\* the pin of the first source, whose entry the pull had just set.
C16_Witness ==
    /\ op.kind = "push" /\ pc = "check_state" /\ idx = 2
    /\ Cardinality(Values(assigns)) = 2
    /\ op.source = assigns[2].key /\ ~op.active
    /\ resp[assigns[1].key] = "true"
    /\ writes = << [gpio |-> assigns[1].val, active |-> TRUE] >>

\* A step in which update_led runs: the end of a pull (line 111), clear_all
\* (line 117) or the callback of a bound source (line 82)
ProjectionStep ==
    \/ PullEnd
    \/ op'.kind = "branch" /\ pc' = "sleep4"
    \/ PushStep /\ DictHas(assigns, op'.source)

\* The logical OR, over the sources bound to gpio g, of their store entries
OrOfSources(states, g) == \E n \in SourcesOf(g) : Active(states, n)

\* C17: after every projection pass, the level last written to each bound
\* pin is the OR over the sources bound to that pin of their store entries,
\* an absent entry counting as inactive, a pin shared by two sources included.
C17_LevelIsOrOfSources ==
    [][ProjectionStep =>
        \A g \in Values(assigns) :
            level'[g] = OrOfSources(source_active_states', g)]_vars

\* C17 witness: two sources share one pin; the callback has just set the
\* second inactive while the first is active, and the pin stays driven.
C17_Witness ==
    /\ Len(assigns) = 2 /\ Cardinality(Values(assigns)) = 1
    /\ op.kind = "push" /\ op.source = assigns[2].key /\ ~op.active
    /\ Active(source_active_states, assigns[1].key)
    /\ assigns[2].key \in DOMAIN source_active_states
    /\ ~source_active_states[assigns[2].key]
    /\ level[assigns[1].val]
    /\ writes = << >>

\* C18: in every reachable state the keys of the store are bound source
\* names, whatever events, pulls and clear_all have run, so the lookup
\* self.assigns[name] of update_led finds a bound pin for every store key.
C18_StoreKeysBound ==
    /\ DOMAIN source_active_states \subseteq Keys(assigns)
    /\ \A n \in DOMAIN source_active_states :
           /\ DictHas(assigns, n)
           /\ DictGet(assigns, n) \in DOMAIN gpio_drives_prev

\* C18 witness: with one source bound and its entry in the store after a
\* pull, an event reporting an unbound source as active has been handled.
C18_Witness ==
    /\ Len(assigns) = 1
    /\ op.kind = "push" /\ op.active /\ ~DictHas(assigns, op.source)
    /\ DOMAIN source_active_states = Keys(assigns)
    /\ pulled

\* C19: in every reachable state the record gpio_drives_prev has exactly the
\* bound pins as its keys and holds, for each, the level of the last
\* GPIO.output call made for that pin, the False of construction at first;
\* and every projection pass replaces the record by the levels it computed,
\* whether or not it made a GPIO.output call.
C19_RecordIsLastWritten ==
    /\ [](/\ DOMAIN gpio_drives_prev = Values(assigns)
          /\ gpio_drives_prev = level)
    /\ [][/\ gpio_drives_prev' = Output(gpio_drives_prev, writes')
          /\ ProjectionStep =>
                 gpio_drives_prev' = GpioDrives(assigns, source_active_states')]_vars

\* C19 witness: two pins are bound; the callback has driven the second pin
\* on with one GPIO.output call, the first stays off since construction, and
\* the record holds both levels.
C19_Witness ==
    /\ Cardinality(Values(assigns)) = 2
    /\ op.kind = "push" /\ op.active /\ op.source = assigns[2].key
    /\ writes = << [gpio |-> assigns[2].val, active |-> TRUE] >>
    /\ gpio_drives_prev[assigns[2].val] /\ ~gpio_drives_prev[assigns[1].val]
    /\ level = gpio_drives_prev

\* Every bound pin is at the OR of the remote activity of its sources, and
\* the store holds the remote activity of every bound source
Healed ==
    /\ obs.phase # "changing"
    /\ \A g \in Values(assigns) :
           level[g] = (\E n \in SourcesOf(g) : obs.active[n])
    /\ \A n \in Keys(assigns) :
           Active(source_active_states, n) = obs.active[n]

\* C20 (as stated): once the session stays identified, queries succeed and
\* the activity of the bound sources has stopped changing, then, whatever
\* events were lost before, from some moment on every bound pin is, and
\* stays, at the OR of the remote activity of its sources.
C20_SelfHealing == (obs.phase # "changing") ~> [](Healed)

\* C20 (amended): the same holds once, moreover, no event is delivered any
\* more, and it is then the projection pass at the end of a pull that sets the
\* pins right.  Every event, of a bound source or not, sets last_received
\* (line 75), and events less than the idle time apart keep the pull from
\* running.
C20_HealsWhenSilent ==
    /\ [][(obs.phase = "silent" /\ level' # level) => PullEnd]_vars
    /\ (obs.phase = "silent") ~> [](Healed)

\* C20 witness: events have ceased, the idle check has started a pull and
\* the projection pass at its end has switched on the pin of a source that
\* is active on the remote.
C20_Witness ==
    /\ obs.phase = "silent" /\ PullDone /\ Healed
    /\ caller = "mainloop"
    /\ \E n \in Keys(assigns) :
           /\ obs.active[n]
           /\ writes = << [gpio |-> DictGet(assigns, n), active |-> TRUE] >>

====
